---- MODULE Spec2Model ----
(***************************************************************************)
(* micrograd: the scalar autograd engine of src/micrograd/engine.py.       *)
(*                                                                         *)
(* The state is the heap of Value objects, addressed by identity (the      *)
(* index of the object in `nodes`), plus the position of a running         *)
(* backward() call.  Every operator method of Value is one action; the     *)
(* backward pass is stepped (one recursion step of build_topo, one         *)
(* v._backward() call at a time) so that the order of the rule             *)
(* invocations is visible.                                                 *)
(*                                                                         *)
(* Numbers: the model draws integer data only.  Python's int is unbounded, *)
(* so no width is modelled.  A power with a negative exponent is drawn     *)
(* only on the bases -1, 0 and 1, where the (float) result is integral or  *)
(* the call raises.                                                        *)
(***************************************************************************)
EXTENDS Integers, Sequences, FiniteSets, TLC

VARIABLES nodes, pc, root, topo, visited, stack, idx, calls, err, passes, ncalls, last

vars == <<nodes, pc, root, topo, visited, stack, idx, calls, err, passes, ncalls, last>>

(* ------------------------------ bounds -------------------------------- *)

\* Largest number of Value objects on the heap.
MaxNodes == 3

\* Largest number of backward() calls in one run.
MaxPasses == 2

\* Largest number of operator calls of the operator specification.
MaxCalls == 2

\* Largest magnitude of the leaf of the diamond scenario.
MaxVal == 3

\* Numbers a client wraps as leaves, Value(x).
LeafVals == {-1, 0, 2}

\* The leaf values of the engine specification.
SeedVals == {-1, 2}

\* Raw numbers a client passes as the right (or reflected left) operand.
RawVals == {-1, 0, 2}

\* Numeric exponents a client passes to **.
Exps == {-1, 0, 2}

(* --------------------------- the Value object -------------------------- *)

\* Value.__init__: data, grad = 0, the no-op _backward, _prev = set(_children).
\* The closure later stored in _backward is the pair of captured operands
\* (self, other) and, for **, the captured exponent; 0 stands for "not
\* captured".  op "" is the default lambda: None.
Value(data, children, op, s, o, k) ==
    [data |-> data, grad |-> 0, prev |-> children, op |-> op,
     self |-> s, other |-> o, exp |-> k]

Ids(ns) == 1..Len(ns)

\* An operand as the caller passes it: a Value (by identity), a plain
\* number, or something that is neither (None, a string, ...).
ValueArg(i) == [kind |-> "Value", id |-> i, n |-> 0]
NumArg(x) == [kind |-> "num", id |-> 0, n |-> x]
OtherArg == [kind |-> "other", id |-> 0, n |-> 0]

\* isinstance(other, Value)
IsValue(a) == a.kind = "Value"

\* The assert of __pow__ left out: any exponent passes.
AnyExponent(a) == TRUE

\* isinstance(other, (int, float))
IsNumber(a) == a.kind = "num"

\* base ** k on integers, k >= 0.
RECURSIVE IntPow(_, _)
IntPow(b, k) == IF k <= 0 THEN 1 ELSE b * IntPow(b, k - 1)

\* A ** with IEEE-754 semantics: 0 ** negative is a value, not an error.
PowNeverRaises(b, k) == FALSE

\* Python's b ** k: raises ZeroDivisionError for 0 ** negative.
PowRaises(b, k) == b = 0 /\ k < 0

\* Python's b ** k where it does not raise.  A negative k gives the float
\* 1 / b**(-k), integral exactly for b in {-1, 1}.
PyPow(b, k) == IF k >= 0 THEN IntPow(b, k) ELSE IntPow(b, -k)

\* The calls the model draws: the result of b ** k is an integer.
Integral(b, k) == k >= 0 \/ b \in {-1, 0, 1}

(* ------------------------- operation builders -------------------------- *)

\* A builder's result: the heap after the call, the returned object's
\* identity (0: none) and the exception raised ("": none).
Ret(ns, out, e) == [ns |-> ns, out |-> out, err |-> e]

\* other if isinstance(other, Value) else Value(other)
Coerce(ns, a) ==
    IF IsValue(a) THEN Ret(ns, a.id, "")
    ELSE Ret(Append(ns, Value(a.n, {}, "", 0, 0, 0)), Len(ns) + 1, "")

\* Value.__add__
add(ns, s, a) ==
    LET c == Coerce(ns, a)
        o == c.out
        out == Value(c.ns[s].data + c.ns[o].data, {s, o}, "+", s, o, 0)
    IN Ret(Append(c.ns, out), Len(c.ns) + 1, "")

\* Value.__mul__
mul(ns, s, a) ==
    LET c == Coerce(ns, a)
        o == c.out
        out == Value(c.ns[s].data * c.ns[o].data, {s, o}, "*", s, o, 0)
    IN Ret(Append(c.ns, out), Len(c.ns) + 1, "")

\* Value.__pow__
pow(ns, s, a) ==
    IF ~IsNumber(a) THEN Ret(ns, 0, "AssertionError")
    ELSE IF PowRaises(ns[s].data, a.n) THEN Ret(ns, 0, "ZeroDivisionError")
    ELSE Ret(Append(ns, Value(PyPow(ns[s].data, a.n), {s}, "**", s, 0, a.n)),
             Len(ns) + 1, "")

\* A relu that clamps self.data in place before wrapping it.
reluInPlace(ns, s) ==
    LET d == IF ns[s].data < 0 THEN 0 ELSE ns[s].data
        clamped == [ns EXCEPT ![s].data = d]
    IN Ret(Append(clamped, Value(d, {s}, "ReLU", s, 0, 0)), Len(ns) + 1, "")

\* Value.relu
relu(ns, s) ==
    LET d == IF ns[s].data < 0 THEN 0 ELSE ns[s].data
    IN Ret(Append(ns, Value(d, {s}, "ReLU", s, 0, 0)), Len(ns) + 1, "")

\* Value.__neg__: self * -1
neg(ns, s) == mul(ns, s, NumArg(-1))

\* Value.__radd__: self + other
radd(ns, s, a) == add(ns, s, a)

\* Value.__sub__: self + (-other); -other is other.__neg__() on a Value and
\* a number on a number.
sub(ns, s, a) ==
    IF IsValue(a)
    THEN LET m == neg(ns, a.id) IN add(m.ns, s, ValueArg(m.out))
    ELSE add(ns, s, NumArg(-a.n))

\* Value.__rsub__: other + (-self); the number's + defers to __radd__ of
\* the negated Value.
rsub(ns, s, a) == LET m == neg(ns, s) IN radd(m.ns, m.out, a)

\* Value.__rmul__: self * other
rmul(ns, s, a) == mul(ns, s, a)

\* Value.__truediv__: self * other**-1; other**-1 is other.__pow__(-1) on a
\* Value and Python's own ** on a number.
truediv(ns, s, a) ==
    IF IsValue(a)
    THEN LET p == pow(ns, a.id, NumArg(-1))
         IN IF p.err # "" THEN Ret(ns, 0, p.err)
            ELSE mul(p.ns, s, ValueArg(p.out))
    ELSE IF PowRaises(a.n, -1) THEN Ret(ns, 0, "ZeroDivisionError")
    ELSE mul(ns, s, NumArg(PyPow(a.n, -1)))

\* Value.__rtruediv__: other * self**-1; the number's * defers to __rmul__
\* of the power.
rtruediv(ns, s, a) ==
    LET p == pow(ns, s, NumArg(-1))
    IN IF p.err # "" THEN Ret(ns, 0, p.err)
       ELSE rmul(p.ns, p.out, a)

(* --------------------------- backward rules ---------------------------- *)

\* x.grad = c: the contribution overwrites the gradient.
AccumulateAssign(ns, x, c) == [ns EXCEPT ![x].grad = c]

\* x.grad += c
Accumulate(ns, x, c) == [ns EXCEPT ![x].grad = @ + c]

\* The _backward closure of __pow__ raises when other - 1 < 0 on data 0.
RuleRaises(ns, v) ==
    ns[v].op = "**" /\ PowRaises(ns[ns[v].self].data, ns[v].exp - 1)

\* other * self.data ** (other - 1)
PowCoef(b, k) == IF k = 0 THEN 0 ELSE k * PyPow(b, k - 1)

\* A rule that walks the operand set _prev, so that an operand used in both
\* places of + or * receives one contribution.
RuleOverPrev(ns, v) ==
    LET s == ns[v].self
        o == ns[v].other
    IN CASE ns[v].op = "+" ->
              LET n1 == Accumulate(ns, s, ns[v].grad)
              IN IF o = s THEN n1 ELSE Accumulate(n1, o, n1[v].grad)
         [] ns[v].op = "*" ->
              LET n1 == Accumulate(ns, s, ns[o].data * ns[v].grad)
              IN IF o = s THEN n1 ELSE Accumulate(n1, o, n1[s].data * n1[v].grad)
         [] ns[v].op = "**" ->
              Accumulate(ns, s, PowCoef(ns[s].data, ns[v].exp) * ns[v].grad)
         [] ns[v].op = "ReLU" ->
              Accumulate(ns, s, (IF ns[v].data > 0 THEN 1 ELSE 0) * ns[v].grad)
         [] OTHER -> ns

\* v._backward(): the closure installed by the builder that made v.
Rule(ns, v) ==
    LET s == ns[v].self
        o == ns[v].other
    IN CASE ns[v].op = "+" ->
              LET n1 == Accumulate(ns, s, ns[v].grad)
              IN Accumulate(n1, o, n1[v].grad)
         [] ns[v].op = "*" ->
              LET n1 == Accumulate(ns, s, ns[o].data * ns[v].grad)
              IN Accumulate(n1, o, n1[s].data * n1[v].grad)
         [] ns[v].op = "**" ->
              Accumulate(ns, s, PowCoef(ns[s].data, ns[v].exp) * ns[v].grad)
         [] ns[v].op = "ReLU" ->
              Accumulate(ns, s, (IF ns[v].data > 0 THEN 1 ELSE 0) * ns[v].grad)
         [] OTHER -> ns

(* ------------------------------- actions ------------------------------- *)

Init ==
    /\ nodes = <<>>
    /\ pc = "idle"
    /\ root = 0
    /\ topo = <<>>
    /\ visited = {}
    /\ stack = <<>>
    /\ idx = 0
    /\ calls = <<>>
    /\ err = ""
    /\ passes = <<>>
    /\ ncalls = 0
    /\ last = [op |-> "", self |-> 0, arg |-> NumArg(0)]

bw == <<pc, root, topo, visited, stack, idx, calls, passes>>

\* An operator call op(s, a) returns (or raises) and leaves the heap r.ns.
Called(op, s, a, r) ==
    /\ nodes' = r.ns
    /\ err' = r.err
    /\ last' = [op |-> op, self |-> s, arg |-> a]
    /\ UNCHANGED bw

ValueArgs == {ValueArg(i) : i \in Ids(nodes)}
NumArgs(V) == {NumArg(x) : x \in V}

\* Value(x)
Leaf(V) == \E a \in NumArgs(V) : Called("Value", 0, a, Coerce(nodes, a))

\* self + other
Add(A) == \E s \in Ids(nodes), a \in A : Called("add", s, a, add(nodes, s, a))

\* self * other
Mul(A) == \E s \in Ids(nodes), a \in A : Called("mul", s, a, mul(nodes, s, a))

\* self ** other
Pow(A) ==
    \E s \in Ids(nodes), a \in A :
        /\ IsNumber(a) => Integral(nodes[s].data, a.n)
        /\ Called("pow", s, a, pow(nodes, s, a))

\* self.relu()
Relu == \E s \in Ids(nodes) : Called("relu", s, NumArg(0), relu(nodes, s))

\* -self
Neg == \E s \in Ids(nodes) : Called("neg", s, NumArg(0), neg(nodes, s))

\* other + self, other a number
Radd(A) == \E s \in Ids(nodes), a \in A : Called("radd", s, a, radd(nodes, s, a))

\* self - other
Sub(A) == \E s \in Ids(nodes), a \in A : Called("sub", s, a, sub(nodes, s, a))

\* other - self, other a number
Rsub(A) == \E s \in Ids(nodes), a \in A : Called("rsub", s, a, rsub(nodes, s, a))

\* other * self, other a number
Rmul(A) == \E s \in Ids(nodes), a \in A : Called("rmul", s, a, rmul(nodes, s, a))

\* self / other
Truediv(A) ==
    \E s \in Ids(nodes), a \in A :
        /\ Integral(IF IsValue(a) THEN nodes[a.id].data ELSE a.n, -1)
        /\ Called("truediv", s, a, truediv(nodes, s, a))

\* other / self, other a number
Rtruediv(A) ==
    \E s \in Ids(nodes), a \in A :
        /\ Integral(nodes[s].data, -1)
        /\ Called("rtruediv", s, a, rtruediv(nodes, s, a))

\* The client of the engine specification builds its expression first and
\* differentiates it afterwards.
Building ==
    /\ pc = "idle"
    /\ passes = <<>>
    /\ Len(nodes) < MaxNodes
    /\ UNCHANGED ncalls

NewLeaf == Building /\ Leaf(SeedVals)
Plus == Building /\ Add(ValueArgs)
Times == Building /\ Mul(ValueArgs)
Power == Building /\ Pow(NumArgs(Exps))
Rectify == Building /\ Relu

\* The client of the operator specification calls every operator method,
\* with a Value or a number on the other side, at any time.
Args == ValueArgs \cup NumArgs(RawVals)

Calling ==
    /\ pc = "idle"
    /\ ncalls < MaxCalls
    /\ ncalls' = ncalls + 1

OpLeaf == Calling /\ Leaf(LeafVals)
OpAdd == Calling /\ Add(Args)
OpMul == Calling /\ Mul(Args)
OpPow == Calling /\ Pow(NumArgs(Exps) \cup ValueArgs \cup {OtherArg})
OpRelu == Calling /\ Relu
OpNeg == Calling /\ Neg
OpRadd == Calling /\ Radd(NumArgs(RawVals))
OpSub == Calling /\ Sub(Args)
OpRsub == Calling /\ Rsub(NumArgs(RawVals))
OpRmul == Calling /\ Rmul(NumArgs(RawVals))
OpTruediv == Calling /\ Truediv(Args)
OpRtruediv == Calling /\ Rtruediv(NumArgs(RawVals))

\* A visited set that compares Values by their data.
SeenByValue(ns, vis, v) == \E w \in vis : ns[w].data = ns[v].data

\* `v not in visited`: membership in a set of Value objects, which hash and
\* compare by identity (Value defines no __eq__).
Seen(ns, vis, v) == v \in vis

\* self.grad += 1: the seed added to what the root held.
SeedAccumulate(ns, r) == [ns EXCEPT ![r].grad = @ + 1]

\* self.grad = 1
Seed(ns, r) == [ns EXCEPT ![r].grad = 1]

\* topo walked front to back.
NotReversed(t) == t

\* reversed(topo)
RECURSIVE Reversed(_)
Reversed(t) == IF t = <<>> THEN <<>> ELSE Append(Reversed(Tail(t)), Head(t))

\* self.backward(), up to the first call of build_topo: topo = [],
\* visited = set(), build_topo(self) enters self.
Backward(R) ==
    /\ pc = "idle"
    /\ Len(passes) < MaxPasses
    /\ \E r \in R :
         /\ root' = r
         /\ visited' = {r}
         /\ stack' = <<[v |-> r, todo |-> nodes[r].prev]>>
         /\ last' = [op |-> "backward", self |-> r, arg |-> NumArg(0)]
    /\ topo' = <<>>
    /\ pc' = "build_topo"
    /\ idx' = 0
    /\ calls' = [i \in Ids(nodes) |-> 0]
    /\ err' = ""
    /\ UNCHANGED <<nodes, passes, ncalls>>

BackwardAny == Backward(Ids(nodes))

\* One step of the innermost build_topo(v) call: the loop over v._prev takes
\* its next child (a set iterates in no fixed order) and, if the child is
\* not visited, enters it; after the loop topo.append(v) and the call
\* returns.  When the outermost call returns, self.grad = 1 and the walk
\* over reversed(topo) starts.
BuildTopo ==
    /\ pc = "build_topo"
    /\ LET top == stack[Len(stack)]
           rest == SubSeq(stack, 1, Len(stack) - 1)
       IN IF top.todo # {}
          THEN /\ \E c \in top.todo :
                    LET popped == Append(rest, [top EXCEPT !.todo = @ \ {c}])
                    IN IF Seen(nodes, visited, c)
                       THEN /\ stack' = popped
                            /\ visited' = visited
                       ELSE /\ stack' = Append(popped, [v |-> c, todo |-> nodes[c].prev])
                            /\ visited' = visited \cup {c}
               /\ UNCHANGED <<nodes, pc, topo, idx>>
          ELSE /\ topo' = Append(topo, top.v)
               /\ stack' = rest
               /\ visited' = visited
               /\ IF rest = <<>>
                  THEN /\ nodes' = Seed(nodes, root)
                       /\ pc' = "walk"
                       /\ idx' = 1
                  ELSE UNCHANGED <<nodes, pc, idx>>
    /\ UNCHANGED <<root, calls, err, passes, ncalls, last>>

\* What a finished (or aborted) pass leaves on record: its root, its
\* exception and every gradient at that moment.
Pass(r, e, ns) == [root |-> r, err |-> e, grads |-> [i \in Ids(ns) |-> ns[i].grad]]

\* One iteration of `for v in reversed(topo): v._backward()`; the pass
\* returns after the last one, or ends with the rule's exception.
Walk ==
    /\ pc = "walk"
    /\ LET v == Reversed(topo)[idx]
       IN /\ calls' = [calls EXCEPT ![v] = @ + 1]
          /\ IF RuleRaises(nodes, v)
             THEN /\ nodes' = nodes
                  /\ err' = "ZeroDivisionError"
                  /\ pc' = "idle"
                  /\ idx' = idx
                  /\ passes' = Append(passes, Pass(root, "ZeroDivisionError", nodes))
             ELSE /\ nodes' = Rule(nodes, v)
                  /\ err' = err
                  /\ idx' = idx + 1
                  /\ IF idx = Len(topo)
                     THEN /\ pc' = "idle"
                          /\ passes' = Append(passes, Pass(root, "", nodes'))
                     ELSE UNCHANGED <<pc, passes>>
    /\ UNCHANGED <<root, topo, visited, stack, ncalls, last>>

Next ==
    \/ NewLeaf \/ Plus \/ Times \/ Power \/ Rectify
    \/ BackwardAny \/ BuildTopo \/ Walk

Spec == Init /\ [][Next]_vars

\* The client of the operator specification differentiates the Value it
\* built last.
BackwardNewest == nodes # <<>> /\ Backward({Len(nodes)})

NextOps ==
    \/ OpLeaf \/ OpAdd \/ OpMul \/ OpPow \/ OpRelu \/ OpNeg \/ OpRadd
    \/ OpSub \/ OpRsub \/ OpRmul \/ OpTruediv \/ OpRtruediv
    \/ BackwardNewest \/ BuildTopo \/ Walk

SpecOps == Init /\ [][NextOps]_vars

\* The diamond of the test scenario: a, b = a*a, c = a*a, out = b + c.
Diamond(x) ==
    LET a == Coerce(<<>>, NumArg(x))
        b == mul(a.ns, a.out, ValueArg(a.out))
        c == mul(b.ns, a.out, ValueArg(a.out))
    IN add(c.ns, b.out, ValueArg(c.out)).ns

InitDiamond ==
    /\ \E x \in -MaxVal..MaxVal : nodes = Diamond(x)
    /\ pc = "idle"
    /\ root = 0
    /\ topo = <<>>
    /\ visited = {}
    /\ stack = <<>>
    /\ idx = 0
    /\ calls = <<>>
    /\ err = ""
    /\ passes = <<>>
    /\ ncalls = 0
    /\ last = [op |-> "add", self |-> 2, arg |-> ValueArg(3)]

NextDiamond == BackwardAny \/ BuildTopo \/ Walk

SpecDiamond == InitDiamond /\ [][NextDiamond]_vars

(* ------------------------ what the claims speak of --------------------- *)

\* The nodes reachable from r through operand links (_prev), r included.
RECURSIVE ReachFrom(_, _, _)
ReachFrom(ns, frontier, seen) ==
    IF frontier = {} THEN seen
    ELSE LET nxt == (UNION {ns[v].prev : v \in frontier}) \ seen
         IN ReachFrom(ns, nxt, seen \cup nxt)

Reach(ns, r) == ReachFrom(ns, {r}, {r})

\* The operand slots of a node (1: the first operand, 2: the second) and
\* the local derivative of the node in each slot, as in the table of
\* operations: add 1 and 1, multiply the other operand's value, power
\* k * a**(k-1), relu the indicator of a positive output.
Slots(ns, u) ==
    CASE ns[u].op \in {"+", "*"} -> {1, 2}
      [] ns[u].op \in {"**", "ReLU"} -> {1}
      [] OTHER -> {}

Operand(ns, u, e) == IF e = 1 THEN ns[u].self ELSE ns[u].other

PowerDerivative(a, k) == IF k = 0 THEN 0 ELSE k * PyPow(a, k - 1)

Local(ns, u, e) ==
    CASE ns[u].op = "+" -> 1
      [] ns[u].op = "*" -> ns[Operand(ns, u, 3 - e)].data
      [] ns[u].op = "**" -> PowerDerivative(ns[ns[u].self].data, ns[u].exp)
      [] ns[u].op = "ReLU" -> IF ns[u].data > 0 THEN 1 ELSE 0
      [] OTHER -> 0

\* d u.value / d v.value: the sum over the operand paths from u to v of the
\* product of the local derivatives along the path.
RECURSIVE Derivative(_, _, _)
Derivative(ns, u, v) ==
    IF u = v THEN 1
    ELSE LET term(e) == IF e \in Slots(ns, u)
                        THEN Local(ns, u, e) * Derivative(ns, Operand(ns, u, e), v)
                        ELSE 0
         IN term(1) + term(2)

\* The same sum with every path weighted by its length n plus one.
RECURSIVE Weighted(_, _, _, _)
Weighted(ns, u, v, n) ==
    IF u = v THEN n + 1
    ELSE LET term(e) == IF e \in Slots(ns, u)
                        THEN Local(ns, u, e) * Weighted(ns, Operand(ns, u, e), v, n + 1)
                        ELSE 0
         IN term(1) + term(2)

TopoSet == {topo[i] : i \in DOMAIN topo}

\* The nodes of the running pass's root that use v as an operand.
Consumers(v) == {c \in Reach(nodes, root) : v \in nodes[c].prev}

\* The first backward() of the run returned: it started from all-zero
\* gradients.
FirstReturned == Len(passes) >= 1 /\ passes[1].err = ""

\* The first two backward() calls of the run were on the same root, one
\* right after the other, and both returned.
TwiceInARow ==
    /\ Len(passes) >= 2
    /\ passes[1].root = passes[2].root
    /\ passes[1].err = "" /\ passes[2].err = ""
    /\ Len(passes[1].grads) = Len(passes[2].grads)

\* A power node whose backward rule divides by zero: base 0, exponent < 1.
BadPower(ns, v) == ns[v].op = "**" /\ ns[v].exp < 1 /\ ns[ns[v].self].data = 0

(* -------------------------------- claims ------------------------------- *)

\* C1: after backward(root) on a graph whose gradients were all 0, every
\* node reachable from root holds d root.value / d node.value, the sum over
\* the operand paths of the products of the local derivatives.
C1_GradientIsDerivative ==
    Len(passes) >= 1 =>
        /\ passes[1].err = ""
        /\ \A v \in Reach(nodes, passes[1].root) :
              passes[1].grads[v] = Derivative(nodes, passes[1].root, v)

\* The gradients of a first pass that does return are the derivatives.
GradientIsDerivativeWhenReturned ==
    FirstReturned =>
        \A v \in Reach(nodes, passes[1].root) :
            passes[1].grads[v] = Derivative(nodes, passes[1].root, v)

\* C2: the finished topo holds exactly the nodes reachable from root, each
\* once (by identity), every node after all of its operands.
C2_TopoOrder ==
    pc = "walk" =>
        /\ TopoSet = Reach(nodes, root)
        /\ \A i, j \in DOMAIN topo : i # j => topo[i] # topo[j]
        /\ \A i \in DOMAIN topo :
              \A c \in nodes[topo[i]].prev : \E j \in 1..(i - 1) : topo[j] = c

C2_Witness ==
    /\ pc = "walk"
    /\ Len(topo) >= 3
    /\ \E v \in TopoSet : Cardinality(Consumers(v)) >= 2
    /\ \E v, w \in TopoSet : v # w /\ nodes[v].data = nodes[w].data

\* C3: when the walk invokes a node's rule, the rule of every consumer of
\* the node reachable from root has been invoked already, and the gradient
\* of a node whose rule has been invoked does not change any more.
C3_ConsumersFirst ==
    [][pc = "walk" =>
          \A w \in DOMAIN calls :
              /\ calls'[w] > calls[w] => \A c \in Consumers(w) : calls[c] >= 1
              /\ calls'[w] >= 1 => nodes'[w].grad = nodes[w].grad]_vars

C3_Witness ==
    /\ pc = "walk"
    /\ idx > 1 /\ idx <= Len(topo)
    /\ Cardinality(Consumers(Reversed(topo)[idx])) >= 2
    /\ nodes[Reversed(topo)[idx]].grad \notin {0, 1}

C5_Diamond ==
    (FirstReturned /\ passes[1].root = 4) =>
        passes[1].grads[1] = 4 * nodes[1].data

C5_Witness ==
    /\ FirstReturned /\ passes[1].root = 4
    /\ nodes[1].data = -2
    /\ passes[1].grads[1] = -8

\* C6: a ** call raises AssertionError (the UnsupportedExponentType
\* outcome) exactly when the exponent is not a number, and then the heap is
\* as it was: no new node, no node changed.
C6_ExponentType ==
    [][(ncalls' = ncalls + 1 /\ last'.op = "pow") =>
          IF last'.arg.kind = "num"
          THEN err' # "AssertionError"
          ELSE err' = "AssertionError" /\ nodes' = nodes]_vars

C6_Witness ==
    /\ last.op = "pow" /\ last.arg.kind = "Value"
    /\ err = "AssertionError"
    /\ \E i \in Ids(nodes) : nodes[i].grad # 0

C8_Frame ==
    [][/\ \A i \in Ids(nodes) :
            /\ i \in Ids(nodes')
            /\ [nodes'[i] EXCEPT !.grad = 0] = [nodes[i] EXCEPT !.grad = 0]
       /\ ncalls' # ncalls =>
            \A i \in Ids(nodes) : nodes'[i].grad = nodes[i].grad]_vars

C8_Witness ==
    /\ last.op = "rsub"
    /\ Len(nodes) = 5
    /\ nodes[1].grad # 0

\* C9: when backward(root) returns, root.grad = 1, whatever it was before.
C9_RootIsOne ==
    \A k \in DOMAIN passes :
        passes[k].err = "" => passes[k].grads[passes[k].root] = 1

C9_Witness ==
    /\ Len(passes) >= 2
    /\ passes[2].err = ""
    /\ passes[1].grads[passes[2].root] \notin {0, 1}

\* C10 (its second half): when a backward() call is over, the rule of
\* every node reachable from root has been invoked exactly once, and no
\* other rule.
C10_EveryRuleOnce ==
    (pc = "idle" /\ passes # <<>>) =>
        \A v \in DOMAIN calls :
            calls[v] = IF v \in Reach(nodes, root) THEN 1 ELSE 0

====
